---------------------------- MODULE Spec2Model ----------------------------
(***************************************************************************)
(* A model of bibcite: the Work record, its two from_query pipelines       *)
(* (bibcite/work.py and quickcite.py), the BibTeX formatter to_bibtex of   *)
(* both files, and the prompt loop of cli.py.                              *)
(*                                                                         *)
(* Python strings that the code builds or takes apart (titles, names,      *)
(* the citation text) are sequences of one-character strings, so that      *)
(* split, rstrip, lower and the f-strings are computed character by        *)
(* character.  Strings the code only compares (work types, exception       *)
(* names) are TLA+ strings.  An Optional value is <<>> for None and <<v>>  *)
(* for v.                                                                  *)
(***************************************************************************)
EXTENDS Integers, Sequences, FiniteSets, TLC

VARIABLES
    variant,        \* "work" (bibcite/work.py) or "quickcite" (quickcite.py)
    pc,             \* position of the running code
    work,           \* <<>> or <<w>>: the Work being formatted / returned by from_query
    bibtex,         \* result of to_bibtex
    query,          \* arguments of from_query: title, work_type, author
    requests,       \* HTTP requests issued by the current lookup, in order
    responses,      \* status codes of the responses received, in order
    author_data,    \* body of the author-search response (work.py line 94)
    paper_dicts,    \* body of the works-search response (line 28 / quickcite line 27)
    paper_doi,      \* <<>> or <<doi>>: relevant_papers[0]['doi'] (line 56 / quickcite line 36)
    crossref_item,  \* body of the registry response (data['message'])
    outcome,        \* result of from_query
    prompts,        \* cli.py: number of inputs read so far
    printed         \* cli.py: messages printed by the loop, in order

lookup_vars == <<query, requests, responses, author_data, paper_dicts, paper_doi,
                 crossref_item, outcome>>
cli_vars == <<prompts, printed>>
vars == <<variant, pc, work, bibtex, lookup_vars, cli_vars>>

-----------------------------------------------------------------------------
(* Bounds *)

MaxAuthors == 2     \* authors of a Work that is formatted
MaxCands   == 2     \* candidates in a works-search response
MaxPrompts == 2     \* inputs the user types into the CLI

-----------------------------------------------------------------------------
(* Results of a call: a return value or a raised exception *)

None == <<>>
Some(v) == <<v>>

NoResult == [kind |-> "none", exc |-> "", line |-> 0, payload |-> {}, status |-> 0, value |-> <<>>]
Returned(v) == [kind |-> "returned", exc |-> "", line |-> 0, payload |-> {}, status |-> 0, value |-> v]
\* exc: the Python exception class; line: the source line that raises;
\* payload: the inputs the message reports; status: the HTTP status the message reports
Raised(exc, line, payload, status) ==
    [kind |-> "raised", exc |-> exc, line |-> line, payload |-> payload, status |-> status, value |-> <<>>]

-----------------------------------------------------------------------------
(* Python string operations *)

Whitespace == {" ", "\t", "\n", "\r"}

\* sep.join(parts)
RECURSIVE join(_, _)
join(sep, parts) ==
    IF parts = <<>> THEN <<>>
    ELSE IF Len(parts) = 1 THEN parts[1]
    ELSE parts[1] \o sep \o join(sep, Tail(parts))

\* s.split(): the maximal runs of non-whitespace characters, in order
RECURSIVE split_from(_, _, _)
split_from(s, i, cur) ==
    IF i > Len(s) THEN (IF cur = <<>> THEN <<>> ELSE <<cur>>)
    ELSE IF s[i] \in Whitespace
         THEN (IF cur = <<>> THEN <<>> ELSE <<cur>>) \o split_from(s, i + 1, <<>>)
         ELSE split_from(s, i + 1, Append(cur, s[i]))
split(s) == split_from(s, 1, <<>>)

\* s.rstrip(chars): every trailing character that is in chars is removed
RECURSIVE rstrip(_, _)
rstrip(s, chars) ==
    IF s # <<>> /\ s[Len(s)] \in chars THEN rstrip(SubSeq(s, 1, Len(s) - 1), chars) ELSE s

\* s.find(ch) + 1: the index of the first occurrence of ch in s, 0 when there is none
RECURSIVE IndexFrom(_, _, _)
IndexFrom(s, ch, i) ==
    IF i > Len(s) THEN 0 ELSE IF s[i] = ch THEN i ELSE IndexFrom(s, ch, i + 1)
IndexOf(s, ch) == IndexFrom(s, ch, 1)

Digits == <<"0", "1", "2", "3", "4", "5", "6", "7", "8", "9">>
\* str(n) for n >= 0
RECURSIVE IntToStr(_)
IntToStr(n) == IF n < 10 THEN <<Digits[n + 1]>> ELSE IntToStr(n \div 10) \o <<Digits[(n % 10) + 1]>>

\* f"{v}" of an Optional int
FormatYear(y) == IF y = None THEN <<"N", "o", "n", "e">> ELSE IntToStr(y[1])

\* bool(v) of an Optional string / Optional int
TruthyStr(v) == v # None /\ v[1] # <<>>
TruthyInt(v) == v # None /\ v[1] # 0

-----------------------------------------------------------------------------
(* String literals of the formatter and of the worked example *)

s_article == <<"a", "r", "t", "i", "c", "l", "e">>
s_book == <<"b", "o", "o", "k">>
s_inproceedings == <<"i", "n", "p", "r", "o", "c", "e", "e", "d", "i", "n", "g", "s">>
s_and == <<" ", "a", "n", "d", " ">>
k_title == <<"t", "i", "t", "l", "e">>
k_author == <<"a", "u", "t", "h", "o", "r">>
k_journal == <<"j", "o", "u", "r", "n", "a", "l">>
k_year == <<"y", "e", "a", "r">>
k_volume == <<"v", "o", "l", "u", "m", "e">>
k_pages == <<"p", "a", "g", "e", "s">>
k_doi == <<"d", "o", "i">>
k_url == <<"u", "r", "l">>

ExampleTitle == <<"E", "l", "e", "m", "e", "n", "t", "s", " ", "o", "f", " ", "M", "o", "d", "e", "r", "n", " ", "X", "-", "r", "a", "y", " ", "P", "h", "y", "s", "i", "c", "s">>
AlsNielsen == <<"A", "l", "s", "-", "N", "i", "e", "l", "s", "e", "n">>
VanGogh == <<"v", "a", "n", " ", "G", "o", "g", "h">>
GivenJ == <<"J", ".">>
ExampleDoi == <<"1", "0", ".", "x", "/", "y">>
ExampleUrl == <<"h", "t", "t", "p", "s", ":", "/", "/", "d", "o", "i", ".", "o", "r", "g", "/", "1", "0", ".", "x", "/", "y">>

-----------------------------------------------------------------------------
(* Work.to_bibtex, bibcite/work.py *)

\* lines 118-127: the if/elif chain; <<>> stands for the else branch
bibtex_type(work_type) ==
    IF work_type = "journal-article" THEN Some(s_article)
    ELSE IF work_type = "book" THEN Some(s_book)
    ELSE IF work_type = "proceedings-article" THEN Some(s_inproceedings)
    ELSE IF work_type = "monograph" THEN Some(s_book)
    ELSE None

\* line 129
authors_joined(authors) ==
    join(s_and, [i \in 1..Len(authors) |-> authors[i].given \o <<" ">> \o authors[i].family])

\* lines 133-142: the dict, in insertion order, each value with its truth value
\* and its f-string rendering
info_list(w) ==
    << [key |-> k_title,   truthy |-> w.title # <<>>,        text |-> w.title],
       [key |-> k_author,  truthy |-> authors_joined(w.authors) # <<>>,
                                                              text |-> authors_joined(w.authors)],
       [key |-> k_journal, truthy |-> TruthyStr(w.journal),  text |-> IF w.journal = None THEN <<>> ELSE w.journal[1]],
       [key |-> k_year,    truthy |-> TruthyInt(w.year),     text |-> FormatYear(w.year)],
       [key |-> k_volume,  truthy |-> TruthyStr(w.volume),   text |-> IF w.volume = None THEN <<>> ELSE w.volume[1]],
       [key |-> k_pages,   truthy |-> TruthyStr(w.pages),    text |-> IF w.pages = None THEN <<>> ELSE w.pages[1]],
       [key |-> k_doi,     truthy |-> w.doi # <<>>,          text |-> w.doi],
       [key |-> k_url,     truthy |-> w.url # <<>>,          text |-> w.url] >>

\* emit_fields without the test of line 146: every field gets a line
RECURSIVE emit_fields_unfiltered(_)
emit_fields_unfiltered(items) ==
    IF items = <<>> THEN <<>>
    ELSE <<" ", " ">> \o Head(items).key \o <<"=", "{">> \o Head(items).text \o <<"}", ",", "\n">>
         \o emit_fields_unfiltered(Tail(items))

\* lines 145-147: the loop over info_list.items()
RECURSIVE emit_fields(_)
emit_fields(items) ==
    IF items = <<>> THEN <<>>
    ELSE (IF Head(items).truthy
          THEN <<" ", " ">> \o Head(items).key \o <<"=", "{">> \o Head(items).text \o <<"}", ",", "\n">>
          ELSE <<>>)
         \o emit_fields(Tail(items))

\* lines 144-148
render(type, key_name, w) ==
    rstrip(<<"@">> \o type \o <<"{">> \o key_name \o FormatYear(w.year) \o <<",", "\n">>
               \o emit_fields(info_list(w)),
           {",", "\n"})
        \o <<"\n", "}">>

\* lines 117-150
to_bibtex(w) ==
    IF bibtex_type(w.work_type) = None
    THEN Raised("ValueError", 127, {"work_type"}, 0)
    ELSE IF w.authors = <<>>
    THEN Raised("IndexError", 130, {}, 0)
    ELSE IF split(w.authors[1].family) = <<>>
    THEN Raised("IndexError", 131, {}, 0)
    ELSE LET tokens == split(w.authors[1].family)
         IN  Returned(render(bibtex_type(w.work_type)[1], tokens[Len(tokens)], w))

-----------------------------------------------------------------------------
(* Work.to_bibtex, quickcite.py *)

\* lines 89-96
qc_bibtex_type(work_type) ==
    IF work_type = "journal-article" THEN Some(s_article)
    ELSE IF work_type = "book" THEN Some(s_book)
    ELSE IF work_type = "proceedings-article" THEN Some(s_inproceedings)
    ELSE None

\* lines 88-118: as in work.py, but the family name is used whole (line 99)
qc_to_bibtex(w) ==
    IF qc_bibtex_type(w.work_type) = None
    THEN Raised("ValueError", 96, {"work_type"}, 0)
    ELSE IF w.authors = <<>>
    THEN Raised("IndexError", 99, {}, 0)
    ELSE Returned(render(qc_bibtex_type(w.work_type)[1], w.authors[1].family, w))

-----------------------------------------------------------------------------
(* Works handed to the formatter *)

FmtFamilies == {AlsNielsen, VanGogh, <<>>, <<" ">>}
FmtAuthors == {[given |-> GivenJ, family |-> f] : f \in FmtFamilies}
RECURSIVE SeqsUpTo(_, _)
SeqsUpTo(S, n) ==
    IF n = 0 THEN {<<>>}
    ELSE LET shorter == SeqsUpTo(S, n - 1)
         IN  shorter \cup {Append(q, x) : q \in {r \in shorter : Len(r) = n - 1}, x \in S}
WorkTypes == {"journal-article", "book", "proceedings-article", "monograph", "dataset"}

\* The data model: authors has at least one entry, year is an integer
FmtWorks ==
    [title : {<<>>, ExampleTitle},
     authors : SeqsUpTo(FmtAuthors, MaxAuthors) \ {<<>>},
     year : {Some(2001), Some(1987)},
     doi : {<<>>, ExampleDoi},
     url : {<<>>, ExampleUrl},
     work_type : WorkTypes,
     journal : {None, Some(<<"J">>)},
     pages : {None, Some(<<"1", "-", "9">>)},
     volume : {None, Some(<<>>), Some(<<"3">>)}]

ExampleWork ==
    [title |-> ExampleTitle, authors |-> <<[given |-> GivenJ, family |-> AlsNielsen]>>,
     year |-> Some(2001), doi |-> ExampleDoi, url |-> ExampleUrl, work_type |-> "book",
     journal |-> None, pages |-> None, volume |-> None]

-----------------------------------------------------------------------------
(* Specification of the formatter: a Work is given, to_bibtex is called on it *)

\* no lookup has run
NoLookup ==
    /\ requests = <<>>
    /\ responses = <<>>
    /\ author_data = None
    /\ paper_dicts = None
    /\ paper_doi = None
    /\ crossref_item = None
    /\ outcome = NoResult

Idle ==
    /\ query = [title |-> <<>>, work_type |-> None, author |-> None]
    /\ NoLookup
    /\ prompts = 0
    /\ printed = <<>>

InitFmt ==
    /\ variant \in {"work", "quickcite"}
    /\ pc = "format"
    /\ work \in {Some(w) : w \in FmtWorks}
    /\ bibtex = NoResult
    /\ Idle

\* work.py: introd_work.to_bibtex() (line 164)
WorkToBibtex ==
    /\ pc = "format"
    /\ variant = "work"
    /\ bibtex' = to_bibtex(work[1])
    /\ pc' = "formatted"
    /\ UNCHANGED <<variant, work, lookup_vars, cli_vars>>

\* quickcite.py: introd_work.to_bibtex() (line 125)
QuickciteToBibtex ==
    /\ pc = "format"
    /\ variant = "quickcite"
    /\ bibtex' = qc_to_bibtex(work[1])
    /\ pc' = "formatted"
    /\ UNCHANGED <<variant, work, lookup_vars, cli_vars>>

NextFmt == WorkToBibtex \/ QuickciteToBibtex

SpecFmt == InitFmt /\ [][NextFmt]_vars

-----------------------------------------------------------------------------
(* JSON values of the two APIs.  A key of a JSON object is a slot: absent   *)
(* ("missing"), present with null ("null"), or present with a value.        *)

Missing(empty) == [k |-> "missing", v |-> empty]
Null(empty) == [k |-> "null", v |-> empty]
Val(x) == [k |-> "val", v |-> x]

QueryTitle == <<"A", "t", "t", "e", "n", "t", "i", "o", "n", " ", "I", "s", " ", "A", "l", "l", " ", "Y", "o", "u">>
TitleCase == <<"a", "t", "t", "e", "n", "t", "i", "o", "n", " ", "i", "s", " ", "a", "l", "l", " ", "y", "o", "u">>
TitleSubst == <<"A", "t", "t", "e", "n", "t", "i", "o", "n", " ", "I", "s", " ", "A", "l", "l", " ", "Y", "o", "o">>
TitleShort == <<"A", "t", "t", "e", "n", "t", "i", "o", "n", " ", "I", "s", " ", "A", "l", "l", " ", "Y", "o">>
TitleOther == <<"S", "u", "p", "e", "r", "n", "o", "v", "a">>
AuthorName == <<"A", "l", "s">>
RawAuthorMatch == <<"J", ".", " ", "A", "l", "s", "-", "N">>
RawAuthorOther == <<"B", "o", "b">>
AuthorUrl == <<"o", "a", "/", "A", "5">>
Doi1 == <<"1", "0", ".", "1">>
Doi2 == <<"1", "0", ".", "2">>

-----------------------------------------------------------------------------
(* fuzz.ratio of fuzzywuzzy (called at work.py line 38) and str.lower *)

Upper == <<"A", "B", "C", "D", "E", "F", "G", "H", "I", "J", "K", "L", "M",
           "N", "O", "P", "Q", "R", "S", "T", "U", "V", "W", "X", "Y", "Z">>
Lower == <<"a", "b", "c", "d", "e", "f", "g", "h", "i", "j", "k", "l", "m",
           "n", "o", "p", "q", "r", "s", "t", "u", "v", "w", "x", "y", "z">>
ToLower == [c \in {Upper[i] : i \in 1..26} |-> Lower[IndexOf(Upper, c)]]
lower_char(c) == IF c \in DOMAIN ToLower THEN ToLower[c] ELSE c
lower(s) == [i \in 1..Len(s) |-> lower_char(s[i])]

\* The number of matching characters M of the two strings, as python-Levenshtein
\* counts them for fuzzywuzzy: the length of a longest common subsequence.  (For
\* the titles within a few points of the threshold, difflib's matching blocks
\* add up to the same number.)  A common prefix and a common suffix are matched
\* first; the rest is the usual table, a row at a time.
MaxOf(S) == CHOOSE x \in S : \A y \in S : y <= x

RECURSIVE common_prefix(_, _, _)
common_prefix(a, b, n) ==
    IF n < Len(a) /\ n < Len(b) /\ a[n + 1] = b[n + 1] THEN common_prefix(a, b, n + 1) ELSE n

RECURSIVE common_suffix(_, _, _)
common_suffix(a, b, n) ==
    IF n < Len(a) /\ n < Len(b) /\ a[Len(a) - n] = b[Len(b) - n] THEN common_suffix(a, b, n + 1) ELSE n

\* cur[j] = max(cur[j-1], prev[j-1] + 1 if ch = b[j] else prev[j])
lcs_row(prev, ch, b) ==
    LET y(k) == IF ch = b[k] THEN (IF k = 1 THEN 0 ELSE prev[k - 1]) + 1 ELSE prev[k]
    IN  SubSeq([j \in 1..Len(b) |-> MaxOf({y(k) : k \in 1..j})], 1, Len(b))

RECURSIVE lcs_rows(_, _, _, _)
lcs_rows(a, b, i, prev) ==
    IF i > Len(a) THEN prev ELSE lcs_rows(a, b, i + 1, lcs_row(prev, a[i], b))

lcs(a, b) == IF a = <<>> \/ b = <<>> THEN 0 ELSE lcs_rows(a, b, 1, [j \in 1..Len(b) |-> 0])[Len(b)]

matching(a, b) ==
    LET p == common_prefix(a, b, 0)
        a1 == SubSeq(a, p + 1, Len(a))
        b1 == SubSeq(b, p + 1, Len(b))
        q == common_suffix(a1, b1, 0)
    IN  p + q + lcs(SubSeq(a1, 1, Len(a1) - q), SubSeq(b1, 1, Len(b1) - q))

\* int(round(x)) of x = num / den, Python 3 rounding (halves go to the even neighbour)
intr(num, den) ==
    LET q == num \div den
        r == num % den
    IN  IF 2 * r < den THEN q
        ELSE IF 2 * r > den THEN q + 1
        ELSE IF q % 2 = 0 THEN q ELSE q + 1

\* fuzz.ratio(s1, s2): 100 for equal strings, 0 when one is empty, else 100 * 2M / T
ratio(s1, s2) ==
    IF s1 = s2 THEN 100
    ELSE IF s1 = <<>> \/ s2 = <<>> THEN 0
    ELSE intr(200 * matching(s1, s2), Len(s1) + Len(s2))

-----------------------------------------------------------------------------
(* Work.from_query and its helpers, bibcite/work.py *)

MatchThreshold == 95
HttpOk == 200

Request(api, arg, author_id) == [api |-> api, arg |-> arg, author_id |-> author_id]

\* line 50: "if work_type:"; line 88: "if author:" is TruthyStr
TruthyType(opt) == opt # None /\ opt[1] # ""

\* s.split('/')[-1]
RECURSIVE last_segment_from(_, _, _)
last_segment_from(s, i, cur) ==
    IF i > Len(s) THEN cur
    ELSE IF s[i] = "/" THEN last_segment_from(s, i + 1, <<>>)
    ELSE last_segment_from(s, i + 1, Append(cur, s[i]))
last_segment(s) == last_segment_from(s, 1, <<>>)

\* lines 94-97: the author id taken from the author-search response
author_id_of(body) ==
    IF ~body.json THEN Raised("JSONDecodeError", 94, {}, 0)
    ELSE IF body.results = None THEN Raised("KeyError", 96, {}, 0)
    ELSE IF body.results[1] = <<>> THEN Raised("IndexError", 96, {}, 0)
    ELSE IF body.results[1][1].id.k = "missing" THEN Raised("KeyError", 96, {}, 0)
    ELSE Returned(last_segment(body.results[1][1].id.v))

\* lines 33-42
paper_title_matches(title, p) ==
    IF p.title.k # "val" THEN FALSE     \* KeyError / AttributeError, caught at line 41
    ELSE ratio(lower(title), lower(p.title.v)) > MatchThreshold

\* lines 28-56: the doi that from_query sends to the registry, or the exception
select_doi(q, body) ==
    IF ~body.json THEN Raised("JSONDecodeError", 28, {}, 0)
    ELSE IF body.results = None THEN Raised("KeyError", 28, {}, 0)
    ELSE LET paper_dicts_ == body.results[1]
             IsMatch(p) == paper_title_matches(q.title, p)
             HasDoi(p) == p.doi.k # "null"
             HasType(p) == p.type.k = "val" /\ p.type.v = q.work_type[1]
             matched == SelectSeq(paper_dicts_, IsMatch)
             with_doi == SelectSeq(matched, HasDoi)
             relevant == IF TruthyType(q.work_type) THEN SelectSeq(with_doi, HasType) ELSE with_doi
         IN  IF paper_dicts_ = <<>> THEN Raised("ValueError", 31, {"title"}, 0)
             ELSE IF \E i \in 1..Len(matched) : matched[i].doi.k = "missing"
                  THEN Raised("KeyError", 45, {}, 0)
             ELSE IF with_doi = <<>> THEN Raised("ValueError", 48, {"title"}, 0)
             ELSE IF TruthyType(q.work_type) /\ \E i \in 1..Len(with_doi) : with_doi[i].type.k = "missing"
                  THEN Raised("KeyError", 51, {}, 0)
             ELSE IF relevant = <<>> THEN Raised("ValueError", 53, {"title", "author"}, 0)
             ELSE Returned(relevant[1].doi.v)

\* lines 76-82
get_crossref_item(status, body) ==
    IF status # HttpOk THEN Raised("ValueError", 80, {}, status)
    ELSE IF ~body.json THEN Raised("JSONDecodeError", 81, {}, 0)
    ELSE IF body.message = None THEN Raised("KeyError", 82, {}, 0)
    ELSE Returned(body.message[1])

\* lines 57-71: the Work built from the registry record, or the exception
new_work(item) ==
    IF item.title.k = "missing" THEN Raised("KeyError", 63, {}, 0)
    ELSE IF item.title.v = <<>> THEN Raised("IndexError", 63, {}, 0)
    ELSE IF item.author.k = "missing" THEN Raised("KeyError", 64, {}, 0)
    ELSE IF item.published.k = "missing" THEN Raised("KeyError", 65, {}, 0)
    ELSE IF item.DOI.k = "missing" THEN Raised("KeyError", 66, {}, 0)
    ELSE IF item.URL.k = "missing" THEN Raised("KeyError", 67, {}, 0)
    ELSE IF item.type.k = "missing" THEN Raised("KeyError", 68, {}, 0)
    ELSE Returned([title |-> item.title.v[1],
                   authors |-> item.author.v,
                   year |-> item.published.v,
                   doi |-> item.DOI.v,
                   url |-> item.URL.v,
                   work_type |-> item.type.v,
                   journal |-> IF item.container_title.k = "val" /\ item.container_title.v # <<>>
                               THEN Some(item.container_title.v[1]) ELSE None,
                   pages |-> IF item.page.k = "val" THEN Some(item.page.v) ELSE None,
                   volume |-> IF item.volume.k = "val" THEN Some(item.volume.v) ELSE None])

\* lines 56-72: get_crossref_item, then the construction
resolve(status, body) ==
    IF get_crossref_item(status, body).kind = "raised" THEN get_crossref_item(status, body)
    ELSE new_work(get_crossref_item(status, body).value)

-----------------------------------------------------------------------------
(* Work.from_query and its helpers, quickcite.py *)

\* a in s
IsSubstring(a, s) == \E i \in 0..(Len(s) - Len(a)) : SubSeq(s, i + 1, i + Len(a)) = a

\* lines 55-61: paper_dict['authorships'][0]['raw_author_name'], '' on any exception
get_author(p) == IF p.raw_author_name.k = "val" THEN p.raw_author_name.v ELSE <<>>

\* lines 27-36: paper_doi, or the exception
qc_select_doi(q, body) ==
    IF ~body.json THEN Raised("JSONDecodeError", 27, {}, 0)
    ELSE IF body.results = None THEN Raised("KeyError", 27, {}, 0)
    ELSE LET paper_dicts_ == body.results[1]
             HasDoi(p) == p.doi.k # "null"
             HasType(p) == p.type.k = "val" /\ p.type.v = q.work_type[1]
             ByAuthor(p) == IsSubstring(q.author[1], get_author(p))
             with_doi == SelectSeq(paper_dicts_, HasDoi)
             typed == IF TruthyType(q.work_type) THEN SelectSeq(with_doi, HasType) ELSE with_doi
             relevant == IF TruthyStr(q.author) THEN SelectSeq(typed, ByAuthor) ELSE typed
         IN  IF \E i \in 1..Len(paper_dicts_) : paper_dicts_[i].doi.k = "missing"
                  THEN Raised("KeyError", 28, {}, 0)
             ELSE IF TruthyType(q.work_type) /\ \E i \in 1..Len(with_doi) : with_doi[i].type.k = "missing"
                  THEN Raised("KeyError", 31, {}, 0)
             ELSE IF relevant = <<>> THEN Raised("IndexError", 36, {}, 0)
             ELSE Returned(relevant[1].doi.v)

\* lines 63-70
qc_get_crossref_item(status, body) ==
    IF status # HttpOk THEN Raised("ValueError", 68, {}, status)
    ELSE IF ~body.json THEN Raised("JSONDecodeError", 69, {}, 0)
    ELSE IF body.message = None THEN Raised("KeyError", 70, {}, 0)
    ELSE Returned(body.message[1])

\* lines 38-52: the same construction as work.py lines 57-71, raising at lines 44-49
qc_new_work(item) ==
    IF new_work(item).kind = "raised"
    THEN Raised(new_work(item).exc, new_work(item).line - 19, {}, 0)
    ELSE new_work(item)

\* lines 37-53
qc_resolve(status, body) ==
    IF qc_get_crossref_item(status, body).kind = "raised" THEN qc_get_crossref_item(status, body)
    ELSE qc_new_work(qc_get_crossref_item(status, body).value)

-----------------------------------------------------------------------------
(* What the two services may answer *)

TextBody == [json |-> FALSE, results |-> None, message |-> None]
ResultsBody(rs) == [json |-> TRUE, results |-> rs, message |-> None]
MessageBody(m) == [json |-> TRUE, results |-> None, message |-> m]

AuthorStatuses == {200, 500}
WorksStatuses == {200, 404}
CrossrefStatuses == {200, 201, 404}

AuthorBodies ==
    {TextBody, ResultsBody(None), ResultsBody(Some(<<>>)),
     ResultsBody(Some(<<[id |-> Missing(<<>>)]>>)), ResultsBody(Some(<<[id |-> Val(AuthorUrl)]>>))}

DoiSlots == {Missing(<<>>), Null(<<>>), Val(Doi1), Val(Doi2)}
TypeSlots == {Missing(""), Val("book"), Val("journal-article")}

\* the keys of a search hit that work.py reads: title, doi, type
WorkCandidates ==
    [title : {Missing(<<>>), Null(<<>>), Val(TitleCase), Val(TitleSubst), Val(TitleShort), Val(TitleOther)},
     doi : DoiSlots, type : TypeSlots, raw_author_name : {Missing(<<>>)}]

\* the keys of a search hit that quickcite.py reads: doi, type, authorships
QuickciteCandidates ==
    [title : {Val(TitleCase)},
     doi : DoiSlots, type : TypeSlots,
     raw_author_name : {Missing(<<>>), Val(RawAuthorMatch), Val(RawAuthorOther)}]

WorksBodies(cands) ==
    {TextBody, ResultsBody(None)} \cup {ResultsBody(Some(rs)) : rs \in SeqsUpTo(cands, MaxCands)}

\* the registry record
CrossrefItems ==
    [title : {Missing(<<>>), Val(<<>>), Val(<<ExampleTitle>>)},
     author : {Missing(<<>>), Val(<<>>), Val(<<[given |-> GivenJ, family |-> AlsNielsen]>>)},
     published : {Missing(None), Val(None), Val(Some(2001))},   \* date-parts [[null]], [[2001]]
     DOI : {Missing(<<>>), Val(Doi1)},
     URL : {Missing(<<>>), Val(ExampleUrl)},
     type : {Missing(""), Val("book"), Val("dataset")},
     container_title : {Missing(<<>>), Val(<<>>), Val(<<<<"J">>>>)},
     page : {Missing(<<>>), Val(<<"1", "-", "9">>)},
     volume : {Missing(<<>>), Val(<<"3">>)}]

WellFormedItem ==
    [title |-> Val(<<ExampleTitle>>),
     author |-> Val(<<[given |-> GivenJ, family |-> AlsNielsen]>>),
     published |-> Val(Some(2001)), DOI |-> Val(Doi1), URL |-> Val(ExampleUrl), type |-> Val("book"),
     container_title |-> Missing(<<>>), page |-> Missing(<<>>), volume |-> Missing(<<>>)]

\* a body is read only under status 200 by get_crossref_item: the other statuses
\* come with an error page or with a well-formed record
CrossrefBodies(status) ==
    IF status = HttpOk
    THEN {TextBody, MessageBody(None)} \cup {MessageBody(Some(m)) : m \in CrossrefItems}
    ELSE {TextBody, MessageBody(Some(WellFormedItem))}

-----------------------------------------------------------------------------
(* Steps of Work.from_query, bibcite/work.py.  A step ends where the code   *)
(* blocks in requests.get or leaves from_query.                             *)

Queries ==
    [title : {QueryTitle}, work_type : {None, Some("book")}, author : {None, Some(AuthorName)}]

\* lines 27, 85-93 / 101-112: from_query is entered and _search_request sends its
\* first request
W_FromQuery ==
    /\ pc = "call"
    /\ variant = "work"
    /\ IF TruthyStr(query.author)
       THEN /\ requests' = Append(requests, Request("authors", query.author[1], None))
            /\ pc' = "await_author"
       ELSE /\ requests' = Append(requests, Request("works", query.title, None))
            /\ pc' = "await_works"
    /\ UNCHANGED <<variant, work, bibtex, query, responses, author_data, paper_dicts, paper_doi,
                   crossref_item, outcome, cli_vars>>

\* lines 93-112: the author search answers; the id is taken and the works search sent
W_AuthorResponse ==
    /\ pc = "await_author"
    /\ variant = "work"
    /\ \E status \in AuthorStatuses, body \in AuthorBodies :
          /\ responses' = Append(responses, status)
          /\ author_data' = Some(body)
          /\ IF author_id_of(body).kind = "raised"
             THEN /\ outcome' = author_id_of(body)
                  /\ pc' = "done"
                  /\ UNCHANGED requests
             ELSE /\ requests' = Append(requests,
                                        Request("works", query.title, Some(author_id_of(body).value)))
                  /\ pc' = "await_works"
                  /\ UNCHANGED outcome
    /\ UNCHANGED <<variant, work, bibtex, query, paper_dicts, paper_doi, crossref_item, cli_vars>>

\* lines 112-113, 27-53: the works search answers; the candidates are filtered
W_WorksResponse ==
    /\ pc = "await_works"
    /\ variant = "work"
    /\ \E status \in WorksStatuses, body \in WorksBodies(WorkCandidates) :
          /\ responses' = Append(responses, status)
          /\ paper_dicts' = Some(body)
          /\ LET r == select_doi(query, body)
             IN  IF r.kind = "raised"
                 THEN /\ outcome' = r
                      /\ pc' = "done"
                      /\ UNCHANGED paper_doi
                 ELSE /\ paper_doi' = Some(r.value)
                      /\ pc' = "fetch"
                      /\ UNCHANGED outcome
    /\ UNCHANGED <<variant, work, bibtex, query, requests, author_data, crossref_item, cli_vars>>

\* lines 56, 77-78: the registry request is sent.  The candidates are not read
\* again and are dropped from the state here.
W_GetCrossrefItem ==
    /\ pc = "fetch"
    /\ variant = "work"
    /\ requests' = Append(requests, Request("crossref", paper_doi[1], None))
    /\ paper_dicts' = None
    /\ pc' = "await_crossref"
    /\ UNCHANGED <<variant, work, bibtex, query, responses, author_data, paper_doi,
                   crossref_item, outcome, cli_vars>>

\* lines 78-82, 57-72: the registry answers; the Work is built and returned
W_CrossrefResponse ==
    /\ pc = "await_crossref"
    /\ variant = "work"
    /\ \E status \in CrossrefStatuses :
       \E body \in CrossrefBodies(status) :
          /\ responses' = Append(responses, status)
          /\ crossref_item' = Some(body)
          /\ IF resolve(status, body).kind = "raised"
             THEN /\ outcome' = resolve(status, body)
                  /\ UNCHANGED work
             ELSE /\ outcome' = Returned(<<>>)
                  /\ work' = Some(resolve(status, body).value)
          /\ pc' = "done"
    /\ UNCHANGED <<variant, bibtex, query, requests, author_data, paper_dicts, paper_doi, cli_vars>>

-----------------------------------------------------------------------------
(* Steps of Work.from_query, quickcite.py *)

\* lines 26, 73-82
Q_FromQuery ==
    /\ pc = "call"
    /\ variant = "quickcite"
    /\ requests' = Append(requests, Request("works", query.title, None))
    /\ pc' = "await_works"
    /\ UNCHANGED <<variant, work, bibtex, query, responses, author_data, paper_dicts, paper_doi,
                   crossref_item, outcome, cli_vars>>

\* lines 82-84, 26-36
Q_WorksResponse ==
    /\ pc = "await_works"
    /\ variant = "quickcite"
    /\ \E status \in WorksStatuses, body \in WorksBodies(QuickciteCandidates) :
          /\ responses' = Append(responses, status)
          /\ paper_dicts' = Some(body)
          /\ LET r == qc_select_doi(query, body)
             IN  IF r.kind = "raised"
                 THEN /\ outcome' = r
                      /\ pc' = "done"
                      /\ UNCHANGED paper_doi
                 ELSE /\ paper_doi' = Some(r.value)
                      /\ pc' = "fetch"
                      /\ UNCHANGED outcome
    /\ UNCHANGED <<variant, work, bibtex, query, requests, author_data, crossref_item, cli_vars>>

\* lines 37, 65-66: the registry request is sent; the candidates are dropped
\* from the state as in W_GetCrossrefItem
Q_GetCrossrefItem ==
    /\ pc = "fetch"
    /\ variant = "quickcite"
    /\ requests' = Append(requests, Request("crossref", paper_doi[1], None))
    /\ paper_dicts' = None
    /\ pc' = "await_crossref"
    /\ UNCHANGED <<variant, work, bibtex, query, responses, author_data, paper_doi,
                   crossref_item, outcome, cli_vars>>

\* lines 66-70, 38-53
Q_CrossrefResponse ==
    /\ pc = "await_crossref"
    /\ variant = "quickcite"
    /\ \E status \in CrossrefStatuses :
       \E body \in CrossrefBodies(status) :
          /\ responses' = Append(responses, status)
          /\ crossref_item' = Some(body)
          /\ IF qc_resolve(status, body).kind = "raised"
             THEN /\ outcome' = qc_resolve(status, body)
                  /\ UNCHANGED work
             ELSE /\ outcome' = Returned(<<>>)
                  /\ work' = Some(qc_resolve(status, body).value)
          /\ pc' = "done"
    /\ UNCHANGED <<variant, bibtex, query, requests, author_data, paper_dicts, paper_doi, cli_vars>>

-----------------------------------------------------------------------------
(* Specification of one lookup: Work.from_query is called once *)

InitQuery ==
    /\ variant \in {"work", "quickcite"}
    /\ pc = "call"
    /\ work = None
    /\ bibtex = NoResult
    /\ query \in Queries
    /\ NoLookup
    /\ prompts = 0
    /\ printed = <<>>

NextQuery ==
    \/ W_FromQuery
    \/ W_AuthorResponse
    \/ W_WorksResponse
    \/ W_GetCrossrefItem
    \/ W_CrossrefResponse
    \/ Q_FromQuery
    \/ Q_WorksResponse
    \/ Q_GetCrossrefItem
    \/ Q_CrossrefResponse

SpecQuery == InitQuery /\ [][NextQuery]_vars

-----------------------------------------------------------------------------
(* The prompt loop of cli.py, which imports Work from quickcite *)

QuitInput == <<"q">>
UserInputs == {QuitInput, QueryTitle}

\* lines 10-16: a line is read; "q" leaves the loop, anything else is looked up
Cli_Input ==
    /\ pc = "prompt"
    /\ prompts < MaxPrompts
    /\ \E user_input \in UserInputs :
          IF user_input = QuitInput
          THEN /\ pc' = "exited"
               /\ UNCHANGED <<query, printed>>
          ELSE /\ printed' = Append(printed, "searching")
               /\ query' = [title |-> user_input, work_type |-> None, author |-> None]
               /\ pc' = "call"
    /\ prompts' = prompts + 1
    /\ UNCHANGED <<variant, work, bibtex, requests, responses, author_data, paper_dicts,
                   paper_doi, crossref_item, outcome>>

\* what the next pass of the loop overwrites before reading it
ForgetLookup ==
    /\ work' = None
    /\ bibtex' = NoResult
    /\ requests' = <<>>
    /\ responses' = <<>>
    /\ author_data' = None
    /\ paper_dicts' = None
    /\ paper_doi' = None
    /\ crossref_item' = None
    /\ outcome' = NoResult

\* lines 17-19: from_query raised; the message is printed and the loop goes on
Cli_Except ==
    /\ pc = "done"
    /\ outcome.kind = "raised"
    /\ printed' = Append(printed, "error")
    /\ pc' = "prompt"
    /\ ForgetLookup
    /\ UNCHANGED <<variant, query, prompts>>

\* lines 21-24: from_query returned; to_bibtex runs outside the try statement, so
\* an exception of it ends the process with a traceback
Cli_Bibtex ==
    /\ pc = "done"
    /\ outcome.kind = "returned"
    /\ IF qc_to_bibtex(work[1]).kind = "raised"
       THEN /\ bibtex' = qc_to_bibtex(work[1])
            /\ pc' = "crashed"
            /\ UNCHANGED <<work, lookup_vars, printed>>
       ELSE /\ printed' = printed \o <<"found", "copied">>
            /\ pc' = "prompt"
            /\ ForgetLookup
            /\ UNCHANGED query
    /\ UNCHANGED <<variant, prompts>>

InitCli ==
    /\ variant = "quickcite"
    /\ pc = "prompt"
    /\ work = None
    /\ bibtex = NoResult
    /\ Idle

NextCli ==
    \/ Cli_Input
    \/ Q_FromQuery
    \/ Q_WorksResponse
    \/ Q_GetCrossrefItem
    \/ Q_CrossrefResponse
    \/ Cli_Except
    \/ Cli_Bibtex

SpecCli == InitCli /\ [][NextCli]_vars

-----------------------------------------------------------------------------
(* Reading a citation text back *)

StartsWith(s, prefix) == Len(s) >= Len(prefix) /\ SubSeq(s, 1, Len(prefix)) = prefix

\* what stands between the first "{" and the first ","
CitationKey(text) == SubSeq(text, IndexOf(text, "{") + 1, IndexOf(text, ",") - 1)

\* what follows the first line
AfterFirstLine(text) == SubSeq(text, IndexOf(text, "\n") + 1, Len(text))

SupportedTypes == {"journal-article", "book", "proceedings-article", "monograph"}

\* the type table of the specification
EntryType(work_type) ==
    CASE work_type = "journal-article" -> s_article
      [] work_type = "book" -> s_book
      [] work_type = "proceedings-article" -> s_inproceedings
      [] work_type = "monograph" -> s_book

\* the unsupported-type error of either formatter
IsUnsupportedType(r) ==
    r.kind = "raised" /\ r.exc = "ValueError" /\ r.line \in {127, 96} /\ "work_type" \in r.payload

-----------------------------------------------------------------------------
(* C1: to_bibtex chooses the entry type by the table journal-article ->     *)
(* article, book -> book, proceedings-article -> inproceedings, monograph   *)
(* -> book, and fails with the unsupported-type error for every other       *)
(* work_type, in both source variants.                                      *)
C1_TypeTable ==
    pc = "formatted" =>
        IF work[1].work_type \in SupportedTypes
        THEN /\ ~IsUnsupportedType(bibtex)
             /\ bibtex.kind = "returned" =>
                    StartsWith(bibtex.value, <<"@">> \o EntryType(work[1].work_type) \o <<"{">>)
        ELSE IsUnsupportedType(bibtex)

-----------------------------------------------------------------------------
(* C2: for every Work with a supported work_type the citation key written   *)
(* between "@<type>{" and the first comma is the last whitespace-separated  *)
(* token of the first author's family name followed by the year, without    *)
(* whitespace, for every family name (also empty or whitespace-only), in    *)
(* both source variants.                                                    *)
LastToken(s) == LET tokens == split(s) IN IF tokens = <<>> THEN <<>> ELSE tokens[Len(tokens)]

C2_CitationKey ==
    (pc = "formatted" /\ work[1].work_type \in SupportedTypes /\ ~IsUnsupportedType(bibtex)) =>
        /\ bibtex.kind = "returned"
        /\ CitationKey(bibtex.value) = LastToken(work[1].authors[1].family) \o FormatYear(work[1].year)
        /\ \A i \in 1..Len(CitationKey(bibtex.value)) : CitationKey(bibtex.value)[i] \notin Whitespace

-----------------------------------------------------------------------------
(* C3: the body of the citation holds one line "  key={value}," for each    *)
(* non-empty field and none for an empty or absent one, in the order title, *)
(* author, journal, year, volume, pages, doi, url, the author value being   *)
(* all authors as "given family" joined by " and "; the last line has no    *)
(* comma and is followed by a newline and "}".  The worked example formats  *)
(* to the six-line text of the specification.                               *)
RECURSIVE AuthorValue(_)
AuthorValue(authors) ==
    IF Len(authors) = 1 THEN authors[1].given \o <<" ">> \o authors[1].family
    ELSE AuthorValue(SubSeq(authors, 1, Len(authors) - 1)) \o s_and
             \o authors[Len(authors)].given \o <<" ">> \o authors[Len(authors)].family

OptionalValue(v) == IF v = None THEN <<>> ELSE v[1]

FieldsInOrder(w) ==
    << <<k_title, w.title>>, <<k_author, AuthorValue(w.authors)>>,
       <<k_journal, OptionalValue(w.journal)>>, <<k_year, IntToStr(w.year[1])>>,
       <<k_volume, OptionalValue(w.volume)>>, <<k_pages, OptionalValue(w.pages)>>,
       <<k_doi, w.doi>>, <<k_url, w.url>> >>

IsNonEmptyField(f) == f[2] # <<>>

RECURSIVE BodyLines(_)
BodyLines(fields) ==
    IF fields = <<>> THEN <<"}">>
    ELSE <<" ", " ">> \o fields[1][1] \o <<"=", "{">> \o fields[1][2] \o <<"}">>
         \o (IF Len(fields) = 1 THEN <<"\n">> ELSE <<",", "\n">>)
         \o BodyLines(Tail(fields))

ExpectedBody(w) == BodyLines(SelectSeq(FieldsInOrder(w), IsNonEmptyField))

ExampleText == <<"@", "b", "o", "o", "k", "{", "A", "l", "s", "-", "N", "i", "e", "l", "s", "e", "n", "2", "0", "0", "1", ",", "\n", " ", " ", "t", "i", "t", "l", "e", "=", "{", "E", "l", "e", "m", "e", "n", "t", "s", " ", "o", "f", " ", "M", "o", "d", "e", "r", "n", " ", "X", "-", "r", "a", "y", " ", "P", "h", "y", "s", "i", "c", "s", "}", ",", "\n", " ", " ", "a", "u", "t", "h", "o", "r", "=", "{", "J", ".", " ", "A", "l", "s", "-", "N", "i", "e", "l", "s", "e", "n", "}", ",", "\n", " ", " ", "y", "e", "a", "r", "=", "{", "2", "0", "0", "1", "}", ",", "\n", " ", " ", "d", "o", "i", "=", "{", "1", "0", ".", "x", "/", "y", "}", ",", "\n", " ", " ", "u", "r", "l", "=", "{", "h", "t", "t", "p", "s", ":", "/", "/", "d", "o", "i", ".", "o", "r", "g", "/", "1", "0", ".", "x", "/", "y", "}", "\n", "}">>

C3_Body ==
    (pc = "formatted" /\ bibtex.kind = "returned") =>
        /\ AfterFirstLine(bibtex.value) = ExpectedBody(work[1])
        /\ (variant = "work" /\ work[1] = ExampleWork) => bibtex.value = ExampleText

C3_Witness ==
    /\ pc = "formatted"
    /\ variant = "work"
    /\ work = Some(ExampleWork)
    /\ bibtex.kind = "returned"
    /\ Len(SelectSeq(FieldsInOrder(work[1]), IsNonEmptyField)) < Len(FieldsInOrder(work[1]))

-----------------------------------------------------------------------------
(* Reading the state of a lookup *)

Is2xx(status) == status >= 200 /\ status <= 299

\* the works search answered with a list of candidates
HasCandidates == paper_dicts # None /\ paper_dicts[1].json /\ paper_dicts[1].results # None
Candidates == paper_dicts[1].results[1]

\* the NotFound error: the ValueError of work.py lines 31, 48, 53 ("No papers found ...")
IsNotFound(r) == r.kind = "raised" /\ r.exc = "ValueError" /\ r.line \in {31, 48, 53}

\* the similarity score of section 4.2: case-insensitive, 0-100
Similarity(t1, t2) == ratio(lower(t1), lower(t2))

TypeMatches(q, p) == q.work_type # None => (p.type.k = "val" /\ p.type.v = q.work_type[1])

\* the candidates section 4.2 keeps, for work.py
Qualifies(q, p) ==
    /\ p.doi.k = "val"
    /\ p.title.k = "val"
    /\ Similarity(q.title, p.title.v) > 95
    /\ TypeMatches(q, p)

\* the candidates quickcite.py keeps: no similarity, the author by substring
QuickciteQualifies(q, p) ==
    /\ p.doi.k = "val"
    /\ TypeMatches(q, p)
    /\ q.author # None => IsSubstring(q.author[1], get_author(p))

Keeps(p) == IF variant = "work" THEN Qualifies(query, p) ELSE QuickciteQualifies(query, p)

ApiSeq == [i \in 1..Len(requests) |-> requests[i].api]
IsPrefix(s, t) == Len(s) <= Len(t) /\ SubSeq(t, 1, Len(s)) = s

-----------------------------------------------------------------------------
(* C4: work.py's from_query resolves the first candidate, in the search's    *)
(* order, that has a doi, a title with similarity above 95 and, when a       *)
(* work_type is supplied, that type; candidates with a missing or null title *)
(* or doi are skipped and do not make the lookup crash; the doi of that      *)
(* candidate is the one sent to the registry.                                *)
C4_FirstQualifying ==
    /\ (variant = "work" /\ HasCandidates /\ \E i \in 1..Len(Candidates) : Qualifies(query, Candidates[i])) =>
           /\ pc = "fetch"
           /\ paper_doi = Some(SelectSeq(Candidates, LAMBDA p : Qualifies(query, p))[1].doi.v)
    /\ (variant = "work" /\ pc = "await_crossref") =>
           /\ requests[Len(requests)].api = "crossref"
           /\ requests[Len(requests)].arg = paper_doi[1]

-----------------------------------------------------------------------------
(* C5: when the filtering leaves no candidate, from_query fails with         *)
(* NotFound, never with a lookup crash, and the error reports the title,     *)
(* the author when supplied and the work_type when supplied; in both         *)
(* source variants.                                                          *)
C5_NotFound ==
    (HasCandidates /\ \A i \in 1..Len(Candidates) : ~Keeps(Candidates[i])) =>
        /\ IsNotFound(outcome)
        /\ "title" \in outcome.payload
        /\ query.author # None => "author" \in outcome.payload
        /\ query.work_type # None => "work_type" \in outcome.payload

-----------------------------------------------------------------------------
(* C6: when an author is supplied and the author search returns no result,   *)
(* _search_request fails with NotFound before the filter is built: no works  *)
(* search is sent, with or without the author clause.                        *)
C6_AuthorNotFound ==
    (variant = "work" /\ query.author # None /\ author_data # None
        /\ author_data[1].json /\ author_data[1].results = Some(<<>>)) =>
        /\ IsNotFound(outcome)
        /\ \A i \in 1..Len(requests) : requests[i].api # "works"

-----------------------------------------------------------------------------
(* C7: a response with a status outside 200..299 makes the lookup fail with  *)
(* an error that carries the status, its body is not used, and a response    *)
(* with a 2xx status is not treated as a failure.                            *)
C7_StatusErrors ==
    /\ \A i \in 1..Len(responses) :
          ~Is2xx(responses[i]) =>
              /\ i = Len(responses)
              /\ outcome.kind = "raised"
              /\ outcome.status = responses[i]
    /\ (outcome.kind = "raised" /\ outcome.status # 0) => ~Is2xx(outcome.status)

-----------------------------------------------------------------------------
(* C8: for a registry record, from_query returns a Work whose title,         *)
(* authors, year, doi, url and work_type are all populated from the record,  *)
(* or it fails because one of them is missing; it never returns a partly     *)
(* populated Work.  A missing container-title, page or volume never makes it *)
(* fail and leaves journal, pages, volume absent.                            *)
HasRecord ==
    /\ crossref_item # None
    /\ responses[Len(responses)] = 200
    /\ crossref_item[1].json
    /\ crossref_item[1].message # None
Record == crossref_item[1].message[1]

MandatoryPresent(item) ==
    /\ item.title.k = "val" /\ item.title.v # <<>>
    /\ item.author.k = "val"
    /\ item.published.k = "val" /\ item.published.v # None
    /\ item.DOI.k = "val"
    /\ item.URL.k = "val"
    /\ item.type.k = "val"

\* the failure on a malformed record: an exception of the construction
\* (work.py lines 63-68, quickcite.py lines 44-49)
IsMalformedRecord(r) ==
    r.kind = "raised" /\ r.line \in (63..68) \cup (44..49)

C8_WholeWorkOrFailure ==
    HasRecord =>
        IF MandatoryPresent(Record)
        THEN /\ outcome.kind = "returned"
             /\ work # None
             /\ work[1].title = Record.title.v[1]
             /\ work[1].authors = Record.author.v
             /\ work[1].year = Record.published.v
             /\ work[1].doi = Record.DOI.v
             /\ work[1].url = Record.URL.v
             /\ work[1].work_type = Record.type.v
             /\ Record.container_title.k = "missing" => work[1].journal = None
             /\ Record.page.k = "missing" => work[1].pages = None
             /\ Record.volume.k = "missing" => work[1].volume = None
        ELSE /\ IsMalformedRecord(outcome)
             /\ work = None

-----------------------------------------------------------------------------
(* C9: in the prompt loop every error raised while a title is handled        *)
(* (search, NotFound, registry, malformed record, unsupported type at        *)
(* formatting) is caught, a message is printed and the next title is asked   *)
(* for; the process ends only when the user enters "q".                      *)
\* Stated for the errors of the taxonomy: an exception of from_query, and the
\* unsupported-type error of to_bibtex.
C9_ErrorsCaught ==
    /\ (pc = "done" /\ outcome.kind = "raised") => ENABLED Cli_Except
    /\ IsUnsupportedType(bibtex) => pc # "crashed"
    /\ (pc = "prompt" /\ printed # <<>>) => printed[Len(printed)] \in {"error", "copied"}

-----------------------------------------------------------------------------
(* C10: the requests of a lookup go author search (only with an author, at   *)
(* most once), works search (at most once), registry fetch (at most once),   *)
(* in this order, and the pipeline stops at the first failure: no request    *)
(* follows a failed one, the registry is asked only for a selected           *)
(* candidate, and no Work is returned after a failure.                       *)
C10_RequestChain ==
    /\ IF variant = "work" /\ query.author # None
       THEN IsPrefix(ApiSeq, <<"authors", "works", "crossref">>)
       ELSE IsPrefix(ApiSeq, <<"works", "crossref">>)
    /\ \A i \in 1..Len(requests) : requests[i].api = "crossref" => paper_doi = Some(requests[i].arg)
    /\ \A i \in 1..Len(responses) : ~Is2xx(responses[i]) => (Len(requests) = i /\ work = None)
    /\ outcome.kind = "raised" => (pc \in {"done", "prompt"} /\ work = None)

=============================================================================
